---- MODULE Spec2Model ----
(***************************************************************************)
(* A model of the education-by-area pipeline: code.py (fetch ACS records   *)
(* per ZCTA, derive percentages, write south_bay_education.csv, download   *)
(* the ZCTA shapefile, join, render) and geo_map.py (read the CSV,         *)
(* download the shapefile with a fallback, filter, join).                  *)
(*                                                                         *)
(* Values are tagged tuples, the tag first:                                *)
(*   <<"null">>            JSON null / Python None                         *)
(*   <<"str", chars>>      a string, chars a sequence of 1-char strings    *)
(*   <<"int", n>>          an integer                                      *)
(*   <<"nan">>, <<"inf", neg>>, <<"fin", neg, mag>>   a float64            *)
(* A finite float64 is kept exactly: mag is its magnitude in fixed point,  *)
(* a sequence of IntBits + FracBits bits, most significant first, of which *)
(* at most MantBits consecutive ones are significant.                      *)
(***************************************************************************)
EXTENDS Integers, Sequences, FiniteSets, TLC

\* ------------------------------------------------------------------ bounds
\* The registry is restricted to the first MaxZips identifiers of ModelZips.
MaxZips == 3
\* Raw degree counts an API row may carry: 0..MaxCount (or null).
MaxCount == 2
\* Total population 25-plus an API row may carry: 0..MaxTotal (or null, or text).
MaxTotal == 3
\* The nationwide shapefile holds at most MaxPolygons rows.
MaxPolygons == 2
\* Fixed-point grid of the float64 model: bits before and after the point.
IntBits == 12
FracBits == 64

\* float64 carries 53 significant bits (numpy float64 division, code.py line 75).
MantBits == 53

W == IntBits + FracBits

\* ------------------------------------------------------------------- text
Digits == <<"0", "1", "2", "3", "4", "5", "6", "7", "8", "9">>

IsDigit(c) == \E k \in 1..10 : Digits[k] = c

DigitVal(c) == (CHOOSE k \in 1..10 : Digits[k] = c) - 1

RECURSIVE IntToText(_)
\* str(n) for n >= 0: decimal, no padding.
IntToText(n) ==
    IF n < 10 THEN <<Digits[n + 1]>>
    ELSE Append(IntToText(n \div 10), Digits[(n % 10) + 1])

RECURSIVE TextToNat(_)
TextToNat(cs) ==
    IF cs = <<>> THEN 0
    ELSE 10 * TextToNat(SubSeq(cs, 1, Len(cs) - 1)) + DigitVal(cs[Len(cs)])

\* int(s) accepts a non-empty run of decimal digits (leading zeros allowed).
IsIntText(cs) == Len(cs) > 0 /\ \A k \in 1..Len(cs) : IsDigit(cs[k])

None == <<"null">>
Str(cs) == <<"str", cs>>
IntV(n) == <<"int", n>>

IsNone(v) == v[1] = "null"
IsStr(v) == v[1] = "str"
IsInt(v) == v[1] = "int"

\* ---------------------------------------------------------------- float64
\* A bit vector as a tuple (the function is computed once, not at every use).
Bits(f) == f \o <<>>

Zeros == Bits([k \in 1..W |-> 0])

NaN == <<"nan">>
Inf(neg) == <<"inf", neg>>
Fin(neg, mag) == <<"fin", neg, mag>>

IsNaN(x) == x[1] = "nan"
IsInf(x) == x[1] = "inf"
IsFin(x) == x[1] = "fin"
\* pandas isna(): NaN is the null marker; +-inf is not null.
IsNull(x) == x[1] = "nan" \/ x[1] = "null"

RECURSIVE Pow2(_)
Pow2(k) == IF k = 0 THEN 1 ELSE 2 * Pow2(k - 1)

\* a + b: the carry into bit k is generated at a lower bit j and propagated by
\* every bit between (overflow past bit 1 is dropped).
BigAdd(a, b) ==
    Bits([k \in 1..W |->
        LET carry == \E j \in (k + 1)..W :
                         /\ a[j] + b[j] = 2
                         /\ \A n \in (k + 1)..(j - 1) : a[n] + b[n] = 1
        IN  (a[k] + b[k] + (IF carry THEN 1 ELSE 0)) % 2])

\* a - b for a >= b: the borrow from bit k is raised at a lower bit j where
\* a[j] < b[j] and passed on by every bit between where a[n] = b[n].
BigSub(a, b) ==
    Bits([k \in 1..W |->
        LET borrow == \E j \in (k + 1)..W :
                          /\ a[j] < b[j]
                          /\ \A n \in (k + 1)..(j - 1) : a[n] = b[n]
        IN  (a[k] - b[k] - (IF borrow THEN 1 ELSE 0) + 2) % 2])

\* a < b as magnitudes.
BigLess(a, b) ==
    \E k \in 1..W : a[k] < b[k] /\ \A j \in 1..(k - 1) : a[j] = b[j]

Shl(a, n) == Bits([k \in 1..W |-> IF k + n <= W THEN a[k + n] ELSE 0])
Shr(a, n) == Bits([k \in 1..W |-> IF k - n >= 1 THEN a[k - n] ELSE 0])

\* The integer n >= 0 on the fixed-point grid.
BigOfNat(n) ==
    Bits([k \in 1..W |-> IF k <= IntBits THEN (n \div Pow2(IntBits - k)) % 2 ELSE 0])

\* Round to nearest, ties to even, at MantBits significant bits; sticky says
\* that non-zero bits were already cut below bit W.
Round53(a, sticky) ==
    IF \A k \in 1..W : a[k] = 0 THEN a
    ELSE LET h    == CHOOSE k \in 1..W : a[k] = 1 /\ \A j \in 1..(k - 1) : a[j] = 0
             last == h + MantBits - 1
         IN  IF last >= W THEN a
             ELSE LET rest  == sticky \/ \E k \in (last + 2)..W : a[k] = 1
                      up    == a[last + 1] = 1 /\ (rest \/ a[last] = 1)
                      trunc == Bits([k \in 1..W |-> IF k <= last THEN a[k] ELSE 0])
                      ulp   == Bits([k \in 1..W |-> IF k = last THEN 1 ELSE 0])
                  IN  IF up THEN BigAdd(trunc, ulp) ELSE trunc

RECURSIVE RemChunk(_, _, _)
\* (r * 2^(8c)) mod t: the remainder of the long division r / t after 8c digits.
RemChunk(r, t, c) == IF c = 0 THEN r ELSE (RemChunk(r, t, c - 1) * 256) % t

\* Binary digit n (n >= 1) after the point of r / t, for 0 <= r < t.
FracDigit(r, t, n) ==
    LET q == (RemChunk(r, t, (n - 1) \div 8) * 256) \div t
    IN  (q \div Pow2(7 - ((n - 1) % 8))) % 2

\* The remainder left after n digits.
FracRem(r, t, n) == (RemChunk(r, t, n \div 8) * Pow2(n % 8)) % t

\* b / t for integers b >= 0, t > 0, correctly rounded.
DivNat(b, t) ==
    LET q == Bits([k \in 1..W |->
                IF k <= IntBits THEN ((b \div t) \div Pow2(IntBits - k)) % 2
                ELSE FracDigit(b % t, t, k - IntBits)])
    IN  Round53(q, FracRem(b % t, t, FracBits) # 0)

\* A column after pd.to_numeric holds <<"int", n>> or NaN. numpy true division:
\* x / 0 is +inf for x > 0 and NaN for x = 0; NaN propagates.
FDiv(a, b) ==
    IF IsNaN(a) \/ IsNaN(b) THEN NaN
    ELSE IF b[2] = 0 THEN (IF a[2] = 0 THEN NaN ELSE Inf(FALSE))
    ELSE Fin(FALSE, DivNat(a[2], b[2]))

\* x * 100 in float64 (100 = 64 + 32 + 4).
FMul100(x) ==
    IF IsNaN(x) THEN NaN
    ELSE IF IsInf(x) THEN x
    ELSE Fin(x[2], Round53(BigAdd(BigAdd(Shl(x[3], 6), Shl(x[3], 5)), Shl(x[3], 2)), FALSE))

Hundred == BigOfNat(100)

\* 100 - x in float64.
FSubFrom100(x) ==
    IF IsNaN(x) THEN NaN
    ELSE IF IsInf(x) THEN Inf(~x[2])
    ELSE IF x[2] THEN Fin(FALSE, Round53(BigAdd(Hundred, x[3]), FALSE))
    ELSE IF BigLess(Hundred, x[3]) THEN Fin(TRUE, Round53(BigSub(x[3], Hundred), FALSE))
    ELSE Fin(FALSE, Round53(BigSub(Hundred, x[3]), FALSE))

\* Integer column addition; NaN propagates.
NAdd(a, b) == IF IsNaN(a) \/ IsNaN(b) THEN NaN ELSE IntV(a[2] + b[2])

\* --------------------------------------------------- code.py: 1) CONFIG
\* Column names, as the strings the API and pandas carry.
C_NAME  == Str(<<"N", "A", "M", "E">>)
C_TOTAL == Str(<<"B", "1", "5", "0", "0", "3", "_", "0", "0", "1", "E">>)
C_BACH  == Str(<<"B", "1", "5", "0", "0", "3", "_", "0", "2", "2", "E">>)
C_MAST  == Str(<<"B", "1", "5", "0", "0", "3", "_", "0", "2", "3", "E">>)
C_PROF  == Str(<<"B", "1", "5", "0", "0", "3", "_", "0", "2", "4", "E">>)
C_DOCT  == Str(<<"B", "1", "5", "0", "0", "3", "_", "0", "2", "5", "E">>)
C_ZCTA  == Str(<<"z", "i", "p", " ", "c", "o", "d", "e", " ", "t", "a", "b", "u", "l",
                 "a", "t", "i", "o", "n", " ", "a", "r", "e", "a">>)
C_CITY  == Str(<<"c", "i", "t", "y">>)

VARS == <<C_NAME, C_TOTAL, C_BACH, C_MAST, C_PROF, C_DOCT>>

south_bay_zips ==
    << <<"San Jose", <<95110, 95111, 95112, 95113, 95116, 95117, 95118, 95119, 95120,
                       95121, 95122, 95123, 95124, 95125, 95126, 95127, 95128, 95129,
                       95130, 95131, 95132, 95133, 95134, 95135, 95136, 95138, 95139,
                       95140, 95141, 95148>> >>,
       <<"Cupertino", <<95014, 95015>> >>,
       <<"Los Gatos", <<95030, 95032, 95033>> >>,
       <<"Saratoga", <<95070, 95071>> >>,
       <<"Mountain View", <<94040, 94041, 94043>> >>,
       <<"Palo Alto", <<94301, 94303, 94304, 94305, 94306>> >>,
       <<"Los Altos", <<94022, 94023, 94024>> >>,
       <<"Sunnyvale", <<94085, 94086, 94087, 94088, 94089>> >>,
       <<"Santa Clara", <<95050, 95051, 95053, 95054>> >>,
       <<"Campbell", <<95008, 95009, 95011>> >>,
       <<"Milpitas", <<95035, 95036>> >> >>

\* The identifiers of the registry the model runs on, in the order they are
\* added as MaxZips grows: two cities whose name order is not their identifier
\* order, and two identifiers of one city.
ModelZips == <<94085, 95050, 95051, 95008>>

Registry == {ModelZips[k] : k \in 1..MaxZips}

\* Python's str order on the registry's city names.
CitiesSorted ==
    <<"Campbell", "Cupertino", "Los Altos", "Los Gatos", "Milpitas", "Mountain View",
      "Palo Alto", "San Jose", "Santa Clara", "Saratoga", "Sunnyvale">>

CityRank(c) == CHOOSE k \in 1..Len(CitiesSorted) : CitiesSorted[k] = c

\* ------------------------------------------- code.py: 2) FETCH ACS DATA
zip_to_city ==
    [z \in Registry |->
        LET e == CHOOSE k \in 1..Len(south_bay_zips) :
                     \E j \in 1..Len(south_bay_zips[k][2]) : south_bay_zips[k][2][j] = z
        IN  south_bay_zips[e][1]]

\* sorted(S) for a set of integers.
Sorted(S) ==
    [k \in 1..Cardinality(S) |->
        CHOOSE z \in S : Cardinality({y \in S : y < z}) = k - 1]

zip_list == Sorted(DOMAIN zip_to_city)

\* JSON values: <<"list", elements>>, <<"object", keys>> (an object iterates as
\* its keys), <<"str", chars>>, <<"int", n>>, <<"null">>; <<"notjson">> is a body
\* that does not parse.
List(es) == <<"list", es>>
Object(ks) == <<"object", ks>>
NotJson == <<"notjson">>

IsIterable(v) == v[1] \in {"list", "object", "str"}

\* The items a Python iteration of v yields.
Iter(v) ==
    IF v[1] = "str" THEN [k \in 1..Len(v[2]) |-> Str(<<v[2][k]>>)]
    ELSE v[2]

\* Hashable values can be dict keys; a list cannot.
IsHashable(v) == v[1] \in {"str", "int", "null"}

\* dict(zip(header, row)): pairs up to the shorter length, a later pair
\* replacing an earlier one with the same key.
DictZip(hs, rs) ==
    LET n == IF Len(hs) < Len(rs) THEN Len(hs) ELSE Len(rs)
    IN  [key \in {hs[k] : k \in 1..n} |->
            rs[CHOOSE k \in 1..n : hs[k] = key /\ \A j \in (k + 1)..n : hs[j] # key]]

\* fetch_zcta(z) on a response: <<"raise", error>> or <<"return", dict>>.
\* resp = [err, status, body]: err is what requests.get raised ("none" when it
\* returned), status the HTTP status, body the response body.
fetch_zcta(resp) ==
    IF resp.err # "none" THEN <<"raise", resp.err>>
    ELSE IF resp.status \div 100 \in {4, 5} THEN <<"raise", "HTTPError">>
    ELSE IF resp.body = NotJson THEN <<"raise", "JSONDecodeError">>
    ELSE IF ~IsIterable(resp.body) THEN <<"raise", "TypeError">>
    ELSE LET items == Iter(resp.body)
         IN  IF Len(items) # 2 THEN <<"raise", "ValueError">>
             ELSE IF ~IsIterable(items[1]) \/ ~IsIterable(items[2])
                  THEN <<"raise", "TypeError">>
             ELSE LET header == Iter(items[1])
                      row    == Iter(items[2])
                      n      == IF Len(header) < Len(row) THEN Len(header) ELSE Len(row)
                  IN  IF \E k \in 1..n : ~IsHashable(header[k])
                      THEN <<"raise", "TypeError">>
                      ELSE <<"return", DictZip(header, row)>>

\* rec["city"] = zip_to_city[z]
WithCity(rec, z) ==
    [key \in DOMAIN rec \cup {C_CITY} |->
        IF key = C_CITY THEN <<"city", zip_to_city[z]>> ELSE rec[key]]

\* ------------------------------------------------ code.py: derived table
num_cols == {C_TOTAL, C_BACH, C_MAST, C_PROF, C_DOCT}

\* The columns of pd.DataFrame(records): every key of every record.
Columns(recs) == UNION {DOMAIN recs[k] : k \in 1..Len(recs)}

\* A cell of the frame: a record without the column holds NaN there.
DfCell(rec, col) == IF col \in DOMAIN rec THEN rec[col] ELSE NaN

\* pd.to_numeric(..., errors="coerce") on one cell.
ToNumeric(v) ==
    IF IsInt(v) THEN v
    ELSE IF IsStr(v) /\ IsIntText(v[2]) THEN IntV(TextToNat(v[2]))
    ELSE NaN

\* count / total * 100
PctOf(count, total) == FMul100(FDiv(count, total))

\* PctOf on the counts the bounded API rows can carry, computed once.
PctTable ==
    [b \in 0..(4 * MaxCount), t \in 0..MaxTotal |-> PctOf(IntV(b), IntV(t))]

Pct(count, total) ==
    IF IsInt(count) /\ IsInt(total) /\ count[2] <= 4 * MaxCount /\ total[2] <= MaxTotal
    THEN PctTable[count[2], total[2]]
    ELSE PctOf(count, total)

\* Mutant: the doctorate count left out of the combined numerator.
BachelorOrHigher_NoDoctorate(b, m, p, d, t) == Pct(NAdd(NAdd(b, m), p), t)

\* (bachelor + master + professional + doctorate) / total * 100
BachelorOrHigher(b, m, p, d, t) == Pct(NAdd(NAdd(NAdd(b, m), p), d), t)

\* Mutant: a null pct_bachelor_or_higher filled with 0 before the subtraction.
NoBachelors_FillNull(boh) == IF IsNull(boh) THEN Fin(FALSE, Hundred) ELSE FSubFrom100(boh)

\* 100 - pct_bachelor_or_higher
NoBachelors(boh) == FSubFrom100(boh)

\* One row of `out`: the selected and renamed columns of df.
OutRow(rec) ==
    LET t == ToNumeric(DfCell(rec, C_TOTAL))
        b == ToNumeric(DfCell(rec, C_BACH))
        m == ToNumeric(DfCell(rec, C_MAST))
        p == ToNumeric(DfCell(rec, C_PROF))
        d == ToNumeric(DfCell(rec, C_DOCT))
        boh == BachelorOrHigher(b, m, p, d, t)
    IN  [city                   |-> DfCell(rec, C_CITY),
         zip                    |-> DfCell(rec, C_ZCTA),
         NAME                   |-> DfCell(rec, C_NAME),
         total_pop_25plus       |-> t,
         pct_bachelor           |-> Pct(b, t),
         pct_master             |-> Pct(m, t),
         pct_professional       |-> Pct(p, t),
         pct_doctorate          |-> Pct(d, t),
         pct_bachelor_or_higher |-> boh,
         pct_no_bachelors       |-> NoBachelors(boh)]

\* Python's str order: by code point, a proper prefix first.
Ascii ==
    <<" ", "0", "1", "2", "3", "4", "5", "6", "7", "8", "9",
      "A", "B", "C", "D", "E", "F", "G", "H", "I", "J", "K", "L", "M",
      "N", "O", "P", "Q", "R", "S", "T", "U", "V", "W", "X", "Y", "Z", "_",
      "a", "b", "c", "d", "e", "f", "g", "h", "i", "j", "k", "l", "m",
      "n", "o", "p", "q", "r", "s", "t", "u", "v", "w", "x", "y", "z">>

CharCode(c) == CHOOSE k \in 1..Len(Ascii) : Ascii[k] = c

StrLess(a, b) ==
    \/ Len(a) < Len(b) /\ \A k \in 1..Len(a) : a[k] = b[k]
    \/ \E k \in 1..Len(a) :
           /\ k <= Len(b)
           /\ CharCode(a[k]) < CharCode(b[k])
           /\ \A j \in 1..(k - 1) : a[j] = b[j]

\* sort_values(["city", "zip"]): by city, then by zip, a missing zip last.
RowLess(r1, r2) ==
    \/ CityRank(r1.city[2]) < CityRank(r2.city[2])
    \/ /\ r1.city = r2.city
       /\ ~IsNull(r1.zip)
       /\ (IsNull(r2.zip) \/ StrLess(r1.zip[2], r2.zip[2]))

SortValues_Unsorted(rows) == rows

SortValues(rows) ==
    LET n == Len(rows)
        pos(j) == 1 + Cardinality({k \in 1..n : RowLess(rows[k], rows[j])})
                    + Cardinality({k \in 1..(j - 1) :
                                     ~RowLess(rows[k], rows[j]) /\ ~RowLess(rows[j], rows[k])})
    IN  [i \in 1..n |-> rows[CHOOSE j \in 1..n : pos(j) = i]]

\* df[num_cols] and df[[...]] raise KeyError when a named column is missing.
DeriveRaises(recs) ==
    ~((num_cols \cup {C_CITY, C_ZCTA, C_NAME}) \subseteq Columns(recs))

Derive(recs) == SortValues([k \in 1..Len(recs) |-> OutRow(recs[k])])

\* to_csv: a null cell is written empty, a string as its text, a number as its
\* decimal text (repr, which reads back as the same float64).
CsvCell(v) ==
    IF IsNull(v) THEN <<"text", <<>> >>
    ELSE IF IsStr(v) THEN <<"text", v[2]>>
    ELSE v

ToCsv(rows) ==
    [k \in 1..Len(rows) |-> [f \in DOMAIN rows[k] |-> CsvCell(rows[k][f])]]

Absent == <<"absent">>
File(content) == <<"file", content>>

\* --------------------------------------------- the remote services' replies
\* An ACS reply: [err, status, body]. err is the exception requests.get raised
\* ("none" when it returned), status the HTTP status, body the parsed JSON.
ApiHeader == VARS \o <<C_ZCTA>>

\* The value row the API returns for ZCTA z with the given count cells.
ApiRow(z, t, b, m, p, d) ==
    <<Str(<<"Z", "C", "T", "A", "5", " ">> \o IntToText(z)), t, b, m, p, d,
      Str(IntToText(z))>>

Txt(n) == Str(IntToText(n))

\* Count cells of the rows the fetch loop is run on: an area with degrees and
\* an area with no population 25-plus.
SampleStats == {<<Txt(3), Txt(1), Txt(0), Txt(1), Txt(0)>>,
                <<Txt(0), Txt(0), Txt(0), Txt(0), Txt(0)>>}

Reply(err, status, body) == [err |-> err, status |-> status, body |-> body]

AcsReplies(z) ==
    {Reply("Timeout", 0, NotJson),
     Reply("none", 500, NotJson),
     Reply("none", 204, NotJson),
     Reply("none", 200, List(<<List(ApiHeader)>>)),
     Reply("none", 200, Object(<<Str(<<"e", "r", "r", "o", "r">>),
                                 Str(<<"s", "t", "a", "t", "u", "s">>)>>))}
    \cup {Reply("none", 200,
                List(<<List(ApiHeader), List(ApiRow(z, st[1], st[2], st[3], st[4], st[5]))>>)) :
          st \in SampleStats}

\* The ZCTA5CE20 values a shapefile row may carry: the registry's identifiers,
\* a zero-padded identifier outside the registry, text that is no integer, and
\* a missing value.
GeoKeys ==
    [k \in 1..Len(zip_list) |-> Txt(zip_list[k])]
    \o <<Str(<<"0", "0", "5", "0", "1">>), Str(<<"9", "5", "0", "0", "A">>), None>>

\* A nationwide shapefile: at most MaxPolygons rows with distinct keys.
Nations ==
    {[k \in 1..Cardinality(S) |-> GeoKeys[Sorted(S)[k]]] :
        S \in {T \in SUBSET (1..Len(GeoKeys)) : Cardinality(T) <= MaxPolygons}}

\* A downloaded payload: head names its first four bytes, zip says whether
\* zipfile.ZipFile can open it, shp holds the rows of the shapefile inside.
PK34 == "PK\\x03\\x04"

Payload(head, zip, shp) == [head |-> head, zip |-> zip, shp |-> shp]

FullNation == [k \in 1..Len(zip_list) |-> GeoKeys[k]]

\* The content of an archive that holds no tl_2023_us_zcta520.shp.
NoShapefile == <<<<"noshp">>>>

ZctaReplies ==
    {Reply("ConnectionError", 0, Payload("", FALSE, <<>>)),
     Reply("none", 404, Payload("<htm", FALSE, <<>>)),
     Reply("none", 200, Payload("<htm", FALSE, <<>>)),
     Reply("none", 200, Payload(PK34, FALSE, <<>>)),
     Reply("none", 200, Payload("MZ\\x90\\x00", TRUE, FullNation)),
     Reply("none", 200, Payload(PK34, TRUE, NoShapefile))}
    \cup {Reply("none", 200, Payload(PK34, TRUE, n)) : n \in Nations}

NoPayload == Payload("", FALSE, <<>>)

\* ------------------------------------------------------------------ state
VARIABLES
    pc,            \* code.py: where the script is
    zi,            \* code.py: index into zip_list of the fetch loop
    records,       \* code.py: records
    stdout,        \* code.py: what was printed, tracebacks included
    out,           \* code.py: out (the derived, sorted table)
    shp_bytes,     \* code.py: shp_bytes
    zcta_gdf,      \* code.py: zcta_gdf
    southbay_gdf,  \* code.py: southbay_gdf
    net,           \* the requests issued, each with the reply it got
    csv,           \* the file south_bay_education.csv
    zcta_shp,      \* the directory zcta_shp
    gm_pc,         \* geo_map.py: where the script is
    gm_df,         \* geo_map.py: df
    gm_response,   \* geo_map.py: response
    gm_stdout,     \* geo_map.py: what was printed, tracebacks included
    gm_zcta_gdf,   \* geo_map.py: zcta_gdf
    gm_zips,       \* geo_map.py: south_bay_zips
    gm_southbay_gdf, \* geo_map.py: southbay_gdf
    zcta_temp,     \* the file zcta_temp.zip
    gm_map         \* the file output/south_bay_education_map.html

codeVars == <<pc, zi, records, stdout, out, shp_bytes, zcta_gdf, southbay_gdf>>
gmVars == <<gm_pc, gm_df, gm_response, gm_stdout, gm_zcta_gdf, gm_zips,
            gm_southbay_gdf, zcta_temp, gm_map>>
vars == <<codeVars, gmVars, net, csv, zcta_shp>>

Traceback(line, error) == <<"Traceback", line, error>>

\* lines 63-66: records after the loop body has run for z with the given reply.
LoopBody(recs, z, resp) ==
    LET r == fetch_zcta(resp)
    IN  IF r[1] = "return" THEN Append(recs, WithCity(r[2], z)) ELSE recs

\* The loop body with a failed identifier queried again.
FetchStep_RetryFailed ==
    /\ pc = "fetch"
    /\ \E resp \in AcsReplies(zip_list[zi]) :
          LET z == zip_list[zi]
              r == fetch_zcta(resp)
              again == r[1] # "return" /\ Len(net) < 2 * Len(zip_list)
          IN  /\ net' = Append(net, <<"acs", z, resp>>)
              /\ records' = LoopBody(records, z, resp)
              /\ stdout' = IF r[1] = "return" THEN stdout
                           ELSE Append(stdout, <<"Failed for", z, r[2]>>)
              /\ zi' = IF again THEN zi ELSE zi + 1
              /\ pc' = IF zi = Len(zip_list) /\ ~again THEN "derive" ELSE "fetch"
    /\ UNCHANGED <<out, shp_bytes, zcta_gdf, southbay_gdf, gmVars, csv, zcta_shp>>

\* lines 62-68: one iteration of the fetch loop.
FetchStep ==
    /\ pc = "fetch"
    /\ \E resp \in AcsReplies(zip_list[zi]) :
          LET z == zip_list[zi]
              r == fetch_zcta(resp)
          IN  /\ net' = Append(net, <<"acs", z, resp>>)
              /\ records' = LoopBody(records, z, resp)
              /\ stdout' = IF r[1] = "return" THEN stdout
                           ELSE Append(stdout, <<"Failed for", z, r[2]>>)
    /\ zi' = zi + 1
    /\ pc' = IF zi = Len(zip_list) THEN "derive" ELSE "fetch"
    /\ UNCHANGED <<out, shp_bytes, zcta_gdf, southbay_gdf, gmVars, csv, zcta_shp>>

\* lines 70-103: df, to_numeric, the pct_* columns, out.
DeriveMetrics ==
    /\ pc = "derive"
    /\ IF DeriveRaises(records)
       THEN /\ pc' = "error"
            /\ stdout' = Append(stdout, Traceback(73, "KeyError"))
            /\ out' = out
       ELSE /\ pc' = "write"
            /\ out' = Derive(records)
            /\ stdout' = stdout
    /\ UNCHANGED <<zi, records, shp_bytes, zcta_gdf, southbay_gdf, gmVars, net, csv,
                   zcta_shp>>

\* The step of lines 105-106 with the table not written to disk.
WriteCsv_NotWritten ==
    /\ pc = "write"
    /\ stdout' = Append(stdout, <<"Wrote CSV">>)
    /\ pc' = "download"
    /\ UNCHANGED <<zi, records, out, shp_bytes, zcta_gdf, southbay_gdf, gmVars, net, csv,
                   zcta_shp>>

\* lines 105-106: out.to_csv(...), print.
WriteCsv ==
    /\ pc = "write"
    /\ csv' = File(ToCsv(out))
    /\ stdout' = Append(stdout, <<"Wrote CSV">>)
    /\ pc' = "download"
    /\ UNCHANGED <<zi, records, out, shp_bytes, zcta_gdf, southbay_gdf, gmVars, net,
                   zcta_shp>>

\* line 112: requests.get(ZCTA_SHP_URL, timeout=60).content; the status is not
\* looked at.
Download ==
    /\ pc = "download"
    /\ \E resp \in ZctaReplies :
          /\ net' = Append(net, <<"zcta", "code.py", resp>>)
          /\ IF resp.err # "none"
             THEN /\ pc' = "error"
                  /\ stdout' = Append(stdout, Traceback(112, resp.err))
                  /\ shp_bytes' = shp_bytes
             ELSE /\ pc' = "extract"
                  /\ stdout' = stdout
                  /\ shp_bytes' = resp.body
    /\ UNCHANGED <<zi, records, out, zcta_gdf, southbay_gdf, gmVars, csv, zcta_shp>>

\* lines 113-117: zipfile.ZipFile(...) and extractall.
Extract ==
    /\ pc = "extract"
    /\ IF ~shp_bytes.zip
       THEN /\ pc' = "error"
            /\ stdout' = Append(stdout, Traceback(113, "BadZipFile"))
            /\ zcta_shp' = zcta_shp
       ELSE /\ pc' = "load"
            /\ stdout' = stdout
            /\ zcta_shp' = File(shp_bytes.shp)
    /\ UNCHANGED <<zi, records, out, shp_bytes, zcta_gdf, southbay_gdf, gmVars, net, csv>>

\* gpd.read_file: one row per polygon, the geometry left out.
ReadShapefile(keys) == [k \in 1..Len(keys) |-> [ZCTA5CE20 |-> keys[k], zip |-> NaN]]

\* line 119: zcta_gdf = gpd.read_file(...)
LoadShapefile ==
    /\ pc = "load"
    /\ IF zcta_shp[2] = NoShapefile
       THEN /\ pc' = "error"
            /\ stdout' = Append(stdout, Traceback(119, "DataSourceError"))
            /\ zcta_gdf' = zcta_gdf
       ELSE /\ pc' = "normalize"
            /\ stdout' = stdout
            /\ zcta_gdf' = ReadShapefile(zcta_shp[2])
    /\ UNCHANGED <<zi, records, out, shp_bytes, southbay_gdf, gmVars, net, csv,
                   zcta_shp>>

\* Series.astype(int) on an object column: int(x) of every value.
AsTypeIntRaises(cells) ==
    \E k \in 1..Len(cells) : ~(IsInt(cells[k]) \/ (IsStr(cells[k]) /\ IsIntText(cells[k][2])))

AsInt(v) == IF IsInt(v) THEN v ELSE IntV(TextToNat(v[2]))

WithZip(gdf) == [k \in 1..Len(gdf) |-> [gdf[k] EXCEPT !.zip = AsInt(gdf[k].ZCTA5CE20)]]

\* line 122: zcta_gdf["zip"] = zcta_gdf["ZCTA5CE20"].astype(int)
Normalize ==
    /\ pc = "normalize"
    /\ IF AsTypeIntRaises([k \in 1..Len(zcta_gdf) |-> zcta_gdf[k].ZCTA5CE20])
       THEN /\ pc' = "error"
            /\ stdout' = Append(stdout, Traceback(122, "ValueError"))
            /\ zcta_gdf' = zcta_gdf
       ELSE /\ pc' = "join"
            /\ stdout' = stdout
            /\ zcta_gdf' = WithZip(zcta_gdf)
    /\ UNCHANGED <<zi, records, out, shp_bytes, southbay_gdf, gmVars, net, csv, zcta_shp>>

\* The dtype pandas gives a key column.
KeyDtype(cells) ==
    IF \A k \in 1..Len(cells) : IsInt(cells[k]) THEN "int64"
    ELSE IF \A k \in 1..Len(cells) : IsInt(cells[k]) \/ IsNaN(cells[k]) THEN "float64"
    ELSE "object"

ZipColumn(rows) == [k \in 1..Len(rows) |-> rows[k].zip]

\* DataFrame.merge checks the key dtypes when both sides have rows: an integer
\* key against an object key of strings is refused.
MergeRaises(left, right) ==
    /\ Len(left) > 0
    /\ Len(right) > 0
    /\ KeyDtype(ZipColumn(left)) = "int64"
    /\ KeyDtype(ZipColumn(right)) = "object"

\* The columns merge adds to a row of the left frame.
Joined(l, r) ==
    [ZCTA5CE20              |-> l.ZCTA5CE20,
     zip                    |-> l.zip,
     city                   |-> r.city,
     NAME                   |-> r.NAME,
     total_pop_25plus       |-> r.total_pop_25plus,
     pct_bachelor           |-> r.pct_bachelor,
     pct_master             |-> r.pct_master,
     pct_professional       |-> r.pct_professional,
     pct_doctorate          |-> r.pct_doctorate,
     pct_bachelor_or_higher |-> r.pct_bachelor_or_higher,
     pct_no_bachelors       |-> r.pct_no_bachelors]

NullRow ==
    [city |-> NaN, NAME |-> NaN, total_pop_25plus |-> NaN, pct_bachelor |-> NaN,
     pct_master |-> NaN, pct_professional |-> NaN, pct_doctorate |-> NaN,
     pct_bachelor_or_higher |-> NaN, pct_no_bachelors |-> NaN]

\* The subsequence of the rows of s that satisfy Keep.
RECURSIVE SelectRows(_, _, _)
SelectRows(rows, keep, k) ==
    IF k > Len(rows) THEN <<>>
    ELSE (IF keep[k] THEN <<rows[k]>> ELSE <<>>) \o SelectRows(rows, keep, k + 1)

\* zcta_gdf[zcta_gdf["zip"].isin(ids)]
IsIn(gdf, ids) ==
    SelectRows(gdf, [k \in 1..Len(gdf) |-> gdf[k].zip \in ids], 1)

\* left.merge(right, on="zip", how="left"): the left rows in order, each with
\* every right row of an equal key, or once with nulls when there is none.
RECURSIVE MergeLeft(_, _, _)
MergeLeft(left, right, k) ==
    IF k > Len(left) THEN <<>>
    ELSE LET hits == SelectRows(right, [j \in 1..Len(right) |-> right[j].zip = left[k].zip], 1)
         IN  (IF hits = <<>> THEN <<Joined(left[k], NullRow)>>
              ELSE [j \in 1..Len(hits) |-> Joined(left[k], hits[j])])
             \o MergeLeft(left, right, k + 1)

IntIds(ids) == {IntV(ids[k]) : k \in 1..Len(ids)}

\* line 124: southbay_gdf = zcta_gdf[isin(zip_list)].merge(out, on="zip", how="left").
\* out's zip column holds the API's strings: pandas from 0.23 on refuses the
\* merge, older versions run it and find no equal keys.
Join ==
    /\ pc = "join"
    /\ LET left == IsIn(zcta_gdf, IntIds(zip_list))
       IN  \/ /\ MergeRaises(left, out)
              /\ pc' = "error"
              /\ stdout' = Append(stdout, Traceback(124, "ValueError"))
              /\ southbay_gdf' = southbay_gdf
           \/ /\ pc' = "render"
              /\ stdout' = stdout
              /\ southbay_gdf' = MergeLeft(left, out, 1)
    /\ UNCHANGED <<zi, records, out, shp_bytes, zcta_gdf, gmVars, net, csv, zcta_shp>>

\* lines 127-184: reproject, draw the map, save it. m.save raises when there
\* is no directory "output" (nothing creates it).
Render ==
    /\ pc = "render"
    /\ \/ /\ pc' = "done"
          /\ stdout' = Append(stdout, <<"Wrote interactive map">>)
       \/ /\ pc' = "error"
          /\ stdout' = Append(stdout, Traceback(183, "FileNotFoundError"))
    /\ UNCHANGED <<zi, records, out, shp_bytes, zcta_gdf, southbay_gdf, gmVars, net, csv,
                   zcta_shp>>

\* ------------------------------------------------------------ geo_map.py
\* pd.read_csv on one cell: an empty cell is NaN, digits are an integer.
ReadCell(c) ==
    IF c[1] = "text"
    THEN (IF c[2] = <<>> THEN NaN
          ELSE IF IsIntText(c[2]) THEN IntV(TextToNat(c[2]))
          ELSE Str(c[2]))
    ELSE c

ReadCsv(rows) == [k \in 1..Len(rows) |-> [f \in DOMAIN rows[k] |-> ReadCell(rows[k][f])]]

\* line 10: df = pd.read_csv("south_bay_education.csv")
GmReadCsv ==
    /\ gm_pc = "start"
    /\ IF csv = Absent
       THEN /\ gm_pc' = "error"
            /\ gm_stdout' = Append(gm_stdout, Traceback(10, "FileNotFoundError"))
            /\ gm_df' = gm_df
       ELSE /\ gm_pc' = "primary"
            /\ gm_stdout' = Append(gm_stdout, <<"Loading CSV data">>)
            /\ gm_df' = ReadCsv(csv[2])
    /\ UNCHANGED <<codeVars, gm_map, gm_response, gm_zcta_gdf, gm_zips, gm_southbay_gdf, zcta_temp,
                   net, csv, zcta_shp>>

\* The try block without the signature test of lines 25-28.
PrimaryRaises_NoSignatureCheck(resp) ==
    IF resp.err # "none" THEN resp.err
    ELSE IF resp.status \notin 200..299 THEN "HTTPError"
    ELSE IF ~resp.body.zip THEN "BadZipFile"
    ELSE "none"

\* lines 21-33: what the try block raises for a reply, "none" when it completes.
PrimaryRaises(resp) ==
    IF resp.err # "none" THEN resp.err
    ELSE IF resp.status \notin 200..299 THEN "HTTPError"
    ELSE IF resp.body.head # PK34 THEN "Invalid ZIP file"
    ELSE IF ~resp.body.zip THEN "BadZipFile"
    ELSE "none"

\* lines 23-29: what the try block prints before it raises or completes.
PrimaryPrints(resp) ==
    IF resp.err # "none" \/ resp.status \notin 200..299 THEN <<>>
    ELSE <<<<"Downloaded bytes">>>>
         \o (IF resp.body.head # PK34
             THEN <<<<"Error: Downloaded file is not a valid ZIP file">>,
                    <<"First 100 bytes", resp.body.head>>>>
             ELSE <<>>)

\* lines 20-38: the try block, and the except clause up to the second request.
GmPrimary ==
    /\ gm_pc = "primary"
    /\ \E resp \in ZctaReplies :
          LET e == PrimaryRaises(resp)
          IN  /\ net' = Append(net, <<"zcta", "primary", resp>>)
              /\ gm_response' = IF resp.err # "none" THEN gm_response ELSE resp.body
              /\ IF e = "none"
                 THEN /\ zcta_shp' = File(resp.body.shp)
                      /\ gm_stdout' = gm_stdout \o PrimaryPrints(resp)
                                         \o <<<<"Shapefile extracted successfully">>>>
                      /\ gm_pc' = "load"
                 ELSE /\ zcta_shp' = zcta_shp
                      /\ gm_stdout' = gm_stdout \o PrimaryPrints(resp)
                                         \o <<<<"Error downloading shapefile", e>>,
                                              <<"Trying alternative method">>>>
                      /\ gm_pc' = "fallback"
    /\ UNCHANGED <<codeVars, gm_map, gm_df, gm_zcta_gdf, gm_zips, gm_southbay_gdf, zcta_temp, csv>>

\* lines 41-53: the streamed download to zcta_temp.zip and its extraction; an
\* exception here is not caught.
GmFallback ==
    /\ gm_pc = "fallback"
    /\ \E resp \in ZctaReplies :
          /\ net' = Append(net, <<"zcta", "fallback", resp>>)
          /\ IF resp.err # "none"
             THEN /\ gm_pc' = "error"
                  /\ gm_stdout' = Append(gm_stdout, Traceback(41, resp.err))
                  /\ UNCHANGED <<gm_response, zcta_temp, zcta_shp>>
             ELSE IF resp.status \notin 200..299
             THEN /\ gm_pc' = "error"
                  /\ gm_stdout' = Append(gm_stdout, Traceback(42, "HTTPError"))
                  /\ gm_response' = resp.body
                  /\ UNCHANGED <<zcta_temp, zcta_shp>>
             ELSE IF ~resp.body.zip
             THEN /\ gm_pc' = "error"
                  /\ gm_stdout' = gm_stdout \o <<<<"Downloaded to file">>,
                                                 Traceback(50, "BadZipFile")>>
                  /\ gm_response' = resp.body
                  /\ zcta_temp' = File(resp.body)
                  /\ zcta_shp' = zcta_shp
             ELSE /\ gm_pc' = "load"
                  /\ gm_stdout' = gm_stdout \o <<<<"Downloaded to file">>,
                                                 <<"Shapefile extracted successfully">>>>
                  /\ gm_response' = resp.body
                  /\ zcta_temp' = File(resp.body)
                  /\ zcta_shp' = File(resp.body.shp)
    /\ UNCHANGED <<codeVars, gm_map, gm_df, gm_zcta_gdf, gm_zips, gm_southbay_gdf, csv>>

\* lines 58-60: zcta_gdf = gpd.read_file(...)
GmLoadShapefile ==
    /\ gm_pc = "load"
    /\ IF zcta_shp[2] = NoShapefile
       THEN /\ gm_pc' = "error"
            /\ gm_stdout' = gm_stdout \o <<<<"Loading shapefile into GeoPandas">>,
                                           Traceback(59, "DataSourceError")>>
            /\ gm_zcta_gdf' = gm_zcta_gdf
       ELSE /\ gm_pc' = "normalize"
            /\ gm_stdout' = gm_stdout \o <<<<"Loading shapefile into GeoPandas">>,
                                           <<"Loaded ZCTAs nationwide", Len(zcta_shp[2])>>>>
            /\ gm_zcta_gdf' = ReadShapefile(zcta_shp[2])
    /\ UNCHANGED <<codeVars, gm_map, gm_df, gm_response, gm_zips, gm_southbay_gdf, zcta_temp, net,
                   csv, zcta_shp>>

\* line 63: zcta_gdf["zip"] = zcta_gdf["ZCTA5CE20"].astype(int)
GmNormalize ==
    /\ gm_pc = "normalize"
    /\ IF AsTypeIntRaises([k \in 1..Len(gm_zcta_gdf) |-> gm_zcta_gdf[k].ZCTA5CE20])
       THEN /\ gm_pc' = "error"
            /\ gm_stdout' = Append(gm_stdout, Traceback(63, "ValueError"))
            /\ gm_zcta_gdf' = gm_zcta_gdf
       ELSE /\ gm_pc' = "filter"
            /\ gm_stdout' = gm_stdout
            /\ gm_zcta_gdf' = WithZip(gm_zcta_gdf)
    /\ UNCHANGED <<codeVars, gm_map, gm_df, gm_response, gm_zips, gm_southbay_gdf, zcta_temp, net,
                   csv, zcta_shp>>

\* lines 66-68: south_bay_zips = df['zip'].astype(int).unique(), then the filter.
GmFilter ==
    /\ gm_pc = "filter"
    /\ IF AsTypeIntRaises(ZipColumn(gm_df))
       THEN /\ gm_pc' = "error"
            /\ gm_stdout' = Append(gm_stdout, Traceback(66, "ValueError"))
            /\ UNCHANGED <<gm_zips, gm_southbay_gdf>>
       ELSE /\ gm_pc' = "merge"
            /\ gm_zips' = {AsInt(gm_df[k].zip) : k \in 1..Len(gm_df)}
            /\ gm_southbay_gdf' = IsIn(gm_zcta_gdf, gm_zips')
            /\ gm_stdout' = Append(gm_stdout,
                                   <<"Filtered to South Bay ZCTAs", Len(gm_southbay_gdf')>>)
    /\ UNCHANGED <<codeVars, gm_map, gm_df, gm_response, gm_zcta_gdf, zcta_temp, net, csv, zcta_shp>>

\* line 71: southbay_gdf = southbay_gdf.merge(df, on="zip", how="left")
GmMerge ==
    /\ gm_pc = "merge"
    /\ IF MergeRaises(gm_southbay_gdf, gm_df)
       THEN /\ gm_pc' = "error"
            /\ gm_stdout' = Append(gm_stdout, Traceback(71, "ValueError"))
            /\ gm_southbay_gdf' = gm_southbay_gdf
       ELSE /\ gm_pc' = "render"
            /\ gm_stdout' = gm_stdout
            /\ gm_southbay_gdf' = MergeLeft(gm_southbay_gdf, gm_df, 1)
    /\ UNCHANGED <<codeVars, gm_map, gm_df, gm_response, gm_zcta_gdf, gm_zips, zcta_temp, net, csv,
                   zcta_shp>>

\* lines 74-335: reproject, build the figures, write the HTML maps.
GmRender ==
    /\ gm_pc = "render"
    /\ gm_pc' = "done"
    /\ gm_map' = File(gm_southbay_gdf)
    /\ gm_stdout' = Append(gm_stdout, <<"Map saved">>)
    /\ UNCHANGED <<codeVars, gm_df, gm_response, gm_zcta_gdf, gm_zips, gm_southbay_gdf,
                   zcta_temp, net, csv, zcta_shp>>

\* records after the whole fetch loop, the k-th identifier getting replies[k].
RECURSIVE FetchLoop(_, _)
FetchLoop(replies, k) ==
    IF k = 0 THEN <<>> ELSE LoopBody(FetchLoop(replies, k - 1), zip_list[k], replies[k])

ReplyPatterns ==
    {f \in [1..Len(zip_list) -> UNION {AcsReplies(zip_list[k]) : k \in 1..Len(zip_list)}] :
        \A k \in 1..Len(zip_list) : f[k] \in AcsReplies(zip_list[k])}

\* The CSV files a finished run of code.py can leave behind.
CsvFiles ==
    {File(ToCsv(Derive(FetchLoop(f, Len(zip_list))))) :
        f \in {g \in ReplyPatterns : ~DeriveRaises(FetchLoop(g, Len(zip_list)))}}

\* geo_map.py started after a run of code.py has ended.
InitGeoMap ==
    /\ pc = "exited"
    /\ zi = Len(zip_list) + 1
    /\ records = <<>>
    /\ stdout = <<>>
    /\ out = <<>>
    /\ shp_bytes = NoPayload
    /\ zcta_gdf = <<>>
    /\ southbay_gdf = <<>>
    /\ net = <<>>
    /\ csv \in CsvFiles \cup {Absent}
    /\ zcta_shp = Absent
    /\ gm_pc = "start"
    /\ gm_df = <<>>
    /\ gm_response = NoPayload
    /\ gm_stdout = <<>>
    /\ gm_zcta_gdf = <<>>
    /\ gm_zips = {}
    /\ gm_southbay_gdf = <<>>
    /\ zcta_temp = Absent
    /\ gm_map = Absent

NextGeoMap ==
    \/ GmReadCsv
    \/ GmPrimary
    \/ GmFallback
    \/ GmLoadShapefile
    \/ GmNormalize
    \/ GmFilter
    \/ GmMerge
    \/ GmRender

SpecGeoMap == InitGeoMap /\ [][NextGeoMap]_vars

Init ==
    /\ pc = "fetch"
    /\ zi = 1
    /\ records = <<>>
    /\ stdout = <<>>
    /\ out = <<>>
    /\ shp_bytes = NoPayload
    /\ zcta_gdf = <<>>
    /\ southbay_gdf = <<>>
    /\ net = <<>>
    /\ csv = Absent
    /\ zcta_shp = Absent
    /\ gm_pc = "idle"
    /\ gm_df = <<>>
    /\ gm_response = NoPayload
    /\ gm_stdout = <<>>
    /\ gm_zcta_gdf = <<>>
    /\ gm_zips = {}
    /\ gm_southbay_gdf = <<>>
    /\ zcta_temp = Absent
    /\ gm_map = Absent

Next ==
    \/ FetchStep
    \/ DeriveMetrics
    \/ WriteCsv
    \/ Download
    \/ Extract
    \/ LoadShapefile
    \/ Normalize
    \/ Join
    \/ Render

Spec == Init /\ [][Next]_vars

\* The fetch loop alone. requests.get(..., timeout=30) returns or raises, so an
\* iteration that can run does run.
NextFetch == FetchStep

SpecFetch == Init /\ [][NextFetch]_vars /\ WF_vars(FetchStep)

\* ------------------------------------ the Metric Deriver on bounded rows
\* A count cell of an API row: null or the text of 0..MaxCount.
CountCells == {None} \cup {Str(IntToText(n)) : n \in 0..MaxCount}

\* The total cell: null, text that is no number, or the text of 0..MaxTotal.
TotalCells == {None, Str(<<"N", "A">>)} \cup {Str(IntToText(n)) : n \in 0..MaxTotal}

ApiRecord(z, t, b, m, p, d) ==
    WithCity(DictZip(ApiHeader, ApiRow(z, t, b, m, p, d)), z)

\* The record of section 8's example: total 1000, counts 300/200/50/50.
ExampleRecord ==
    ApiRecord(zip_list[1], Str(IntToText(1000)), Str(IntToText(300)),
              Str(IntToText(200)), Str(IntToText(50)), Str(IntToText(50)))

InitDerive ==
    /\ pc = "derive"
    /\ zi = Len(zip_list) + 1
    /\ records \in {<<ExampleRecord>>} \cup
                    {<<ApiRecord(zip_list[1], t, b, m, p, d)>> :
                        t \in TotalCells, b \in CountCells, m \in CountCells,
                        p \in CountCells, d \in CountCells}
    /\ stdout = <<>>
    /\ out = <<>>
    /\ shp_bytes = NoPayload
    /\ zcta_gdf = <<>>
    /\ southbay_gdf = <<>>
    /\ net = <<>>
    /\ csv = Absent
    /\ zcta_shp = Absent
    /\ gm_pc = "idle"
    /\ gm_df = <<>>
    /\ gm_response = NoPayload
    /\ gm_stdout = <<>>
    /\ gm_zcta_gdf = <<>>
    /\ gm_zips = {}
    /\ gm_southbay_gdf = <<>>
    /\ zcta_temp = Absent
    /\ gm_map = Absent

NextDerive == DeriveMetrics \/ WriteCsv

SpecDerive == InitDerive /\ [][NextDerive]_vars

\* ================================================================= claims
\* The ACS queries issued so far, in order, each <<"acs", z, reply>>.
AcsLog == SelectSeq(net, LAMBDA e : e[1] = "acs")

\* A body that is a header-plus-single-row table.
IsHeaderAndRow(body) ==
    /\ body[1] = "list"
    /\ Len(body[2]) = 2
    /\ body[2][1][1] = "list"
    /\ body[2][2][1] = "list"

\* A lookup that failed: network error or timeout, non-success status, or a
\* body that is not a header-plus-single-row table.
LookupFailed(resp) ==
    \/ resp.err # "none"
    \/ resp.status \notin 200..299
    \/ ~IsHeaderAndRow(resp.body)

FailedLog == SelectSeq(AcsLog, LAMBDA e : LookupFailed(e[3]))
SucceededLog == SelectSeq(AcsLog, LAMBDA e : ~LookupFailed(e[3]))
Notices == SelectSeq(stdout, LAMBDA e : e[1] = "Failed for")

\* C1: with F the identifiers whose lookup fails, the loop still processes
\* every identifier, records holds exactly one record for each identifier not
\* in F, in the order queried, and a notice is printed for each identifier in F.
C1_FailuresSkippedOnly ==
    /\ Len(AcsLog) = zi - 1
    /\ \A k \in 1..Len(AcsLog) : AcsLog[k][2] = zip_list[k]
    /\ pc # "fetch" => Len(AcsLog) = Len(zip_list)
    /\ Len(records) = Len(SucceededLog)
    /\ \A k \in 1..Len(records) :
          k <= Len(SucceededLog) =>
             records[k] = WithCity(DictZip(SucceededLog[k][3].body[2][1][2],
                                           SucceededLog[k][3].body[2][2][2]),
                                   SucceededLog[k][2])
    /\ Len(Notices) = Len(FailedLog)
    /\ \A k \in 1..Len(Notices) :
          k <= Len(FailedLog) => Notices[k][2] = FailedLog[k][2]

\* C2: once the fetch loop has ended and the script has moved past the table
\* write, the CSV exists and holds exactly one row per fetched record, for every
\* non-empty set of failed identifiers.
C2_CsvAlwaysWritten ==
    pc \notin {"fetch", "derive", "write"} =>
        /\ csv # Absent
        /\ Len(csv[2]) = Len(records)
        /\ \A k \in 1..Len(records) :
              \E j \in 1..Len(csv[2]) : csv[2][j].zip = CsvCell(DfCell(records[k], C_ZCTA))

\* The metric fields a joined row takes from the statistical record.
Metrics(r) == [f \in DOMAIN NullRow |-> r[f]]

\* A statistical record's identifier and a polygon's key name the same area.
SameId(recZip, polyZip) ==
    /\ IsInt(polyZip)
    /\ \/ recZip = polyZip
       \/ IsStr(recZip) /\ IsIntText(recZip[2]) /\ TextToNat(recZip[2]) = polyZip[2]

HasTraceback(log, line) == \E k \in 1..Len(log) : log[k][1] = "Traceback" /\ log[k][2] = line

\* C7: in code.py the join completes, and every polygon of a registry
\* identifier appears in southbay_gdf with the metrics of the record of the same
\* identifier, or with null metrics when there is no such record.
C7_JoinCarriesMetrics ==
    /\ ~HasTraceback(stdout, 124)
    /\ pc \in {"render", "done"} =>
          \A k \in 1..Len(zcta_gdf) :
             zcta_gdf[k].zip \in IntIds(zip_list) =>
                \E j \in 1..Len(southbay_gdf) :
                   /\ southbay_gdf[j].ZCTA5CE20 = zcta_gdf[k].ZCTA5CE20
                   /\ LET recs == {i \in 1..Len(out) : SameId(out[i].zip, zcta_gdf[k].zip)}
                      IN  IF recs = {} THEN Metrics(southbay_gdf[j]) = NullRow
                          ELSE \E i \in recs : Metrics(southbay_gdf[j]) = Metrics(out[i])

\* C8: once geo_map.py has joined, southbay_gdf holds exactly one row for each
\* registry identifier that has a polygon in the geometry set, and no row for any
\* other identifier, whichever lookups failed when the CSV was produced.
C8_OneRowPerRegistryPolygon ==
    gm_pc \in {"render", "done"} =>
        /\ \A z \in Registry :
              Cardinality({j \in 1..Len(gm_southbay_gdf) : gm_southbay_gdf[j].zip = IntV(z)})
                 = IF \E k \in 1..Len(gm_zcta_gdf) : gm_zcta_gdf[k].zip = IntV(z) THEN 1 ELSE 0
        /\ \A j \in 1..Len(gm_southbay_gdf) : gm_southbay_gdf[j].zip[2] \in Registry

\* code.py has received the shapefile payload and is past the archive step.
PastExtract ==
    /\ pc \notin {"fetch", "derive", "write", "download", "extract"}
    /\ \E k \in 1..Len(net) :
          net[k][1] = "zcta" /\ net[k][2] = "code.py" /\ net[k][3].err = "none"

\* C9: code.py extracts the payload only when its first four bytes are the ZIP
\* signature, and otherwise prints a diagnostic that shows the first bytes.
C9_ExtractOnlySignedPayload ==
    /\ zcta_shp # Absent => shp_bytes.head = PK34
    /\ (PastExtract /\ shp_bytes.head # PK34) =>
          \E k \in 1..Len(stdout) : stdout[k] = <<"First 100 bytes", shp_bytes.head>>

\* A ZCTA5CE20 value that is missing or is not the text of an integer.
Malformed(key) == ~(IsStr(key) /\ IsIntText(key[2]))

\* C10: a polygon with a missing or malformed key never ends code.py's run; the
\* run goes on and the polygon is left out of southbay_gdf.
C10_MalformedKeyTolerated ==
    /\ ~HasTraceback(stdout, 122)
    /\ pc \in {"render", "done"} =>
          \A j \in 1..Len(southbay_gdf) : ~Malformed(southbay_gdf[j].ZCTA5CE20)

\* The rows of the CSV file, none when it is not written.
CsvRows == IF csv = Absent THEN <<>> ELSE csv[2]

HasZip(row) == IsIntText(row.zip[2])

ZipOf(row) == TextToNat(row.zip[2])

OneQueryEach ==
    /\ Len(AcsLog) = zi - 1
    /\ Len(AcsLog) <= Len(zip_list)
    /\ \A k \in 1..Len(AcsLog) : k <= Len(zip_list) => AcsLog[k][2] = zip_list[k]
    /\ pc # "fetch" => Len(AcsLog) = Len(zip_list)

\* C12: in a run of code.py the fetch loop issues exactly one query per registry
\* identifier, scoped to it, in registry order, each after the one before has
\* returned or failed, never a second one for a failed identifier, and the loop
\* ends after exactly as many queries as there are identifiers.
C12_OneQueryPerIdentifier ==
    /\ []OneQueryEach
    /\ <>[](pc # "fetch" /\ Len(AcsLog) = Len(zip_list))

\* The loop has ended after a timed-out query that was followed by a query for
\* the next identifier.
C12_Witness ==
    /\ pc = "derive"
    /\ Len(AcsLog) = Len(zip_list)
    /\ \E k \in 1..(Len(AcsLog) - 1) :
          /\ AcsLog[k][3].err = "Timeout"
          /\ AcsLog[k + 1][2] = zip_list[k + 1]
          /\ ~LookupFailed(AcsLog[k + 1][3])

\* The shapefile downloads geo_map.py has made, by strategy.
Primaries == SelectSeq(net, LAMBDA e : e[1] = "zcta" /\ e[2] = "primary")
Fallbacks == SelectSeq(net, LAMBDA e : e[1] = "zcta" /\ e[2] = "fallback")

\* A reply fails the primary download: request error, non-2xx status, bad
\* signature, or an archive that cannot be extracted.
FailsPrimary(resp) ==
    \/ resp.err # "none"
    \/ resp.status \notin 200..299
    \/ resp.body.head # PK34
    \/ ~resp.body.zip

\* A reply fails the alternate download: request error, non-2xx status, or an
\* archive that cannot be extracted.
FailsFallback(resp) ==
    \/ resp.err # "none"
    \/ resp.status \notin 200..299
    \/ ~resp.body.zip

AfterDownload == {"load", "normalize", "filter", "merge", "render", "done"}

\* C13: in geo_map.py the alternate download is made exactly once after a failed
\* primary download and never otherwise; after a successful alternate the run
\* goes on to loading and joining, and after a failed one it ends with an error
\* and writes no map.
C13_FallbackExactlyOnce ==
    /\ Len(Primaries) <= 1
    /\ Len(Fallbacks) <= 1
    /\ Len(Primaries) = 0 => Len(Fallbacks) = 0 /\ gm_pc \in {"start", "primary", "error"}
    /\ Len(Primaries) = 1 =>
          IF FailsPrimary(Primaries[1][3])
          THEN IF Len(Fallbacks) = 0
               THEN gm_pc = "fallback"
               ELSE IF FailsFallback(Fallbacks[1][3])
                    THEN /\ gm_pc = "error"
                         /\ gm_map = Absent
                         /\ gm_zcta_gdf = <<>>
                    ELSE /\ zcta_shp = File(Fallbacks[1][3].body.shp)
                         /\ \/ gm_pc \in AfterDownload
                            \/ /\ gm_pc = "error"
                               /\ \E k \in 1..Len(gm_stdout) :
                                     gm_stdout[k] = <<"Loading shapefile into GeoPandas">>
          ELSE /\ Len(Fallbacks) = 0
               /\ gm_pc \in AfterDownload \cup {"error"}
               /\ zcta_shp = File(Primaries[1][3].body.shp)

\* The primary download delivered a payload with a bad signature, the alternate
\* succeeded, and the run wrote its map.
C13_Witness ==
    /\ Len(Primaries) = 1
    /\ Primaries[1][3].err = "none"
    /\ Primaries[1][3].body.head # PK34
    /\ Len(Fallbacks) = 1
    /\ ~FailsFallback(Fallbacks[1][3])
    /\ gm_pc = "done"
    /\ gm_map # Absent

\* code.py is at or past the start of the geometry download.
GeometryPhase ==
    \/ pc \in {"download", "extract", "load", "normalize", "join", "render", "done"}
    \/ \E k \in 1..Len(net) : net[k][1] = "zcta" /\ net[k][2] = "code.py"

\* C14: whenever code.py has reached the geometry download, the CSV of this run
\* is on disk in full, and no later step, failing or not, changes it.
C14_CsvWrittenBeforeDownload ==
    /\ [](GeometryPhase => csv = File(ToCsv(out)) /\ Len(out) = Len(records))
    /\ [][GeometryPhase => csv' = csv]_vars

\* A run that failed in the geometry download, in extraction, in the shapefile
\* load, in the join or in rendering, with the CSV of the run on disk.
C14_Witness ==
    /\ pc = "error"
    /\ \E line \in {112, 113, 119, 124, 183} : HasTraceback(stdout, line)
    /\ csv = File(ToCsv(out))
    /\ Len(out) > 0

Rows == 1..Len(out)

PctFields(r) ==
    <<r.pct_bachelor, r.pct_master, r.pct_professional, r.pct_doctorate,
      r.pct_bachelor_or_higher>>

\* 0 <= x <= 100 for a float64 x.
InZeroToHundred(x) == IsFin(x) /\ (~x[2] \/ x[3] = Zeros) /\ ~BigLess(Hundred, x[3])

\* The real-number sum of four non-negative float64 values, none NaN.
ExactSum(a, b, c, d) ==
    IF IsInf(a) \/ IsInf(b) \/ IsInf(c) \/ IsInf(d) THEN Inf(FALSE)
    ELSE Fin(FALSE, BigAdd(BigAdd(BigAdd(a[3], b[3]), c[3]), d[3]))

\* |x - y| <= x * 2^-50 for finite non-negative x, y; or both infinite.
WithinTolerance(x, y) ==
    \/ IsInf(x) /\ IsInf(y)
    \/ /\ IsFin(x) /\ IsFin(y)
       /\ LET diff == IF BigLess(x[3], y[3]) THEN BigSub(y[3], x[3])
                      ELSE BigSub(x[3], y[3])
          IN  ~BigLess(Shr(x[3], 50), diff)

\* C3 (as stated): every derived row whose total population 25-plus is zero or
\* null has all six percentages null.
C3_ZeroOrNullTotalGivesNull ==
    \A k \in Rows :
        (IsNull(out[k].total_pop_25plus) \/ out[k].total_pop_25plus = IntV(0))
        => /\ \A j \in 1..5 : IsNull(PctFields(out[k])[j])
           /\ IsNull(out[k].pct_no_bachelors)

\* C4 (as stated): each of the five derived percentages of every derived row is
\* null or a value v with 0 <= v <= 100.
C4_PercentagesInRange ==
    \A k \in Rows : \A j \in 1..5 :
        IsNull(PctFields(out[k])[j]) \/ InZeroToHundred(PctFields(out[k])[j])

AllNonNull(r) == \A j \in 1..5 : ~IsNull(PctFields(r)[j])

\* C5 (as stated): in every derived row whose five percentages are all
\* non-null, pct_bachelor_or_higher equals the sum of the four degree
\* percentages.
C5_SumExact ==
    \A k \in Rows :
        AllNonNull(out[k])
        => out[k].pct_bachelor_or_higher
             = ExactSum(out[k].pct_bachelor, out[k].pct_master,
                        out[k].pct_professional, out[k].pct_doctorate)

\* C5 (amended): in every derived row whose five percentages are all non-null,
\* pct_bachelor_or_higher and the sum of the four degree percentages are both
\* infinite or differ by at most 2^-50 of pct_bachelor_or_higher.
C5_SumWithinTolerance ==
    \A k \in Rows :
        AllNonNull(out[k])
        => WithinTolerance(out[k].pct_bachelor_or_higher,
                           ExactSum(out[k].pct_bachelor, out[k].pct_master,
                                    out[k].pct_professional, out[k].pct_doctorate))

\* A derived row with finite percentages whose sum is not exactly
\* pct_bachelor_or_higher: the rounding case the tolerance is for.
C5_Witness ==
    \E k \in Rows :
        /\ AllNonNull(out[k])
        /\ IsFin(out[k].pct_bachelor_or_higher)
        /\ out[k].pct_bachelor_or_higher
             # ExactSum(out[k].pct_bachelor, out[k].pct_master,
                        out[k].pct_professional, out[k].pct_doctorate)

\* C6: in every derived row, and in the row written to the CSV, pct_no_bachelors
\* is null exactly when pct_bachelor_or_higher is null, and is otherwise
\* 100 - pct_bachelor_or_higher of that row.
C6_Complement ==
    /\ \A k \in Rows :
          /\ IsNull(out[k].pct_no_bachelors) <=> IsNull(out[k].pct_bachelor_or_higher)
          /\ ~IsNull(out[k].pct_bachelor_or_higher)
             => out[k].pct_no_bachelors = FSubFrom100(out[k].pct_bachelor_or_higher)
    /\ csv # Absent =>
          \A k \in 1..Len(csv[2]) :
              csv[2][k].pct_no_bachelors
                = CsvCell(FSubFrom100(out[k].pct_bachelor_or_higher))

\* A written row whose pct_bachelor_or_higher is 60 and whose complement is 40.
C6_Witness ==
    /\ csv # Absent
    /\ \E k \in Rows :
          /\ out[k].pct_bachelor_or_higher = Fin(FALSE, BigOfNat(60))
          /\ csv[2][k].pct_no_bachelors = Fin(FALSE, BigOfNat(40))

====
